---- MODULE Spec2Model ----
(***************************************************************************)
(* EcoManager: the client-side refresh interceptor of                      *)
(* frontend/src/services/api.ts and the serverless MongoDB connection      *)
(* cache of backend/server.js.                                             *)
(*                                                                         *)
(* Granularity.  JavaScript runs one task at a time; a handler gives up    *)
(* control only at an await on the network.  Each action below is one such *)
(* uninterrupted run: from the arrival of a response (or the call of       *)
(* api(config)) to the next network send or to the settling of the         *)
(* caller's promise.                                                       *)
(***************************************************************************)
EXTENDS Integers, FiniteSets, Sequences, TLC

\* ------------------------------------------------------------------ bounds
NumRequests == 2          \* requests issued through the api client
NumServerRequests == 2    \* HTTP requests that reach the Express app

Requests == 1..NumRequests
ServerRequests == 1..NumServerRequests

\* ------------------------------------------------------- values (client)
Null     == "<null>"      \* localStorage.getItem of an absent key
NoHeader == <<>>          \* config.headers has no Authorization entry
Bearer(t) == <<"Bearer", t>>   \* `Bearer ${t}`

\* JavaScript truthiness of what getItem returns: null and '' are falsy.
Truthy(s) == s # Null /\ s # ""

InitialTokens        == {Null, "a0"}
InitialRefreshTokens == {Null, "", "r0"}
\* accessToken values the refresh endpoint may answer with
AccessTokens         == {"", "a1", "a2"}

\* HTTP outcomes of a request: 0 stands for a network error (no response).
ErrorStatuses == {0, 401, 500}
NoStatus == -1            \* no response seen yet

\* ------------------------------------------------------------- variables
VARIABLES
  localStorage,   \* [key -> value or Null], keys 'token' and 'refreshToken'
  href,           \* window.location.href
  creq,           \* per request: the axios config and the handler's locals
  env,            \* process.env and the installed mongoose, fixed per process
  cachedDb,       \* server.js: let cachedDb
  readyState,     \* mongoose.connection.readyState
  established,    \* the driver holds a client that reconnects by itself
  connectCalls,   \* number of mongoose.connect invocations so far
  boot,           \* the process: module load, startServer, listening, exited
  sreq,           \* per HTTP request: its way through the app
  authServer,     \* the refresh endpoint: the refresh-token marker it accepts
  lreq,           \* one GET /leaderboard request: its query and its parsedLimit
  nodeEnv,        \* process.env.NODE_ENV as the users routes and error handler read it
  store,          \* the users collection
  areq            \* per API request: its way through /api/users or the error handler

cvars == <<localStorage, href, creq>>
svars == <<env, cachedDb, readyState, established, connectCalls, boot, sreq>>
avars == <<nodeEnv, store, areq>>
ovars == <<authServer, lreq, nodeEnv, store, areq>>
vars  == <<localStorage, href, creq,
           env, cachedDb, readyState, established, connectCalls, boot, sreq,
           authServer, lreq, nodeEnv, store, areq>>

\* ----------------------------------------------------------- localStorage
GetItem(ls, k)    == ls[k]
SetItem(ls, k, v) == [ls EXCEPT ![k] = v]
RemoveItem(ls, k) == [ls EXCEPT ![k] = Null]

\* ------------------------------------------------------------- the client
RequestInterceptor_NeverAttaches(config, ls) == config

\* api.interceptors.request.use: attach the stored token if there is one.
RequestInterceptor(config, ls) ==
  LET token == GetItem(ls, "token") IN
  IF Truthy(token) THEN [config EXCEPT !.auth = Bearer(token)] ELSE config

\* api(config): the request interceptor runs, then the request goes out.
Dispatch(config, ls) ==
  [RequestInterceptor(config, ls) EXCEPT !.pc = "sent", !.sends = @ + 1]

ShouldRefresh_NoRetryGuard(status, retry) == status = 401

\* The guard of the refresh branch: a 401 on a request not yet retried.
ShouldRefresh(status, retry) == status = 401 /\ ~retry

StoreAccessToken_NotStored(ls, accessToken) == ls

\* localStorage.setItem('token', accessToken)
StoreAccessToken(ls, accessToken) == SetItem(ls, "token", accessToken)

\* originalRequest.headers['Authorization'] = `Bearer ${accessToken}`
RetryConfig(config, accessToken) == [config EXCEPT !.auth = Bearer(accessToken)]

ClearTokens_KeepsRefreshToken(ls) == RemoveItem(ls, "token")

\* catch (refreshError): both items are removed.
ClearTokens(ls) == RemoveItem(RemoveItem(ls, "token"), "refreshToken")

Rejected(config, status) ==
  [config EXCEPT !.pc = "done", !.outcome = "rejected", !.status = status]

NewConfig ==
  [pc |-> "idle", retry |-> FALSE, auth |-> NoHeader, sends |-> 0,
   refreshCalls |-> 0, status |-> NoStatus, refreshToken |-> Null,
   refreshStatus |-> NoStatus, accessToken |-> Null, outcome |-> "pending"]

ClientStorages ==
  {[token |-> t, refreshToken |-> rt] :
     t \in InitialTokens, rt \in InitialRefreshTokens}

ClientInit ==
  /\ localStorage \in ClientStorages
  /\ href = "/app"
  /\ creq = [r \in Requests |-> NewConfig]

\* The caller invokes api(config) with a config that carries no
\* Authorization header of its own.
Issue(r) ==
  /\ creq[r].pc = "idle"
  /\ creq' = [creq EXCEPT ![r] = Dispatch(@, localStorage)]
  /\ UNCHANGED <<localStorage, href>>
  /\ UNCHANGED svars
  /\ UNCHANGED ovars

\* Response interceptor, success handler: the response is passed through.
ResponseOk(r) ==
  /\ creq[r].pc = "sent"
  /\ creq' = [creq EXCEPT ![r] = [@ EXCEPT !.pc = "done", !.status = 200,
                                            !.outcome = "resolved"]]
  /\ UNCHANGED <<localStorage, href>>
  /\ UNCHANGED svars
  /\ UNCHANGED ovars

\* Response interceptor, error handler, up to its first await or its return.
OnResponseError(c, status, ls) ==
  IF ShouldRefresh(status, c.retry)
  THEN LET refreshToken == GetItem(ls, "refreshToken")
           marked == [c EXCEPT !.retry = TRUE, !.refreshToken = refreshToken]
       IN IF Truthy(refreshToken)
          THEN [marked EXCEPT !.pc = "refreshing", !.status = status,
                              !.refreshCalls = @ + 1]
          ELSE Rejected(marked, status)
  ELSE Rejected(c, status)

ResponseError(r) ==
  /\ creq[r].pc = "sent"
  /\ \E status \in ErrorStatuses :
       creq' = [creq EXCEPT ![r] = OnResponseError(@, status, localStorage)]
  /\ UNCHANGED <<localStorage, href>>
  /\ UNCHANGED svars
  /\ UNCHANGED ovars

\* The refresh call answered 2xx with data.data.accessToken: the token is
\* stored, the header is set, and api(originalRequest) sends the request again.
RefreshSuccess(r, accessToken) ==
  LET ls == StoreAccessToken(localStorage, accessToken)
      c  == [creq[r] EXCEPT !.refreshStatus = 200, !.accessToken = accessToken]
  IN /\ localStorage' = ls
     /\ creq' = [creq EXCEPT ![r] = Dispatch(RetryConfig(c, accessToken), ls)]
     /\ UNCHANGED href

RefreshOk(r) ==
  /\ creq[r].pc = "refreshing"
  /\ \E accessToken \in AccessTokens : RefreshSuccess(r, accessToken)
  /\ UNCHANGED svars
  /\ UNCHANGED ovars

\* The refresh call was rejected (network error or non-2xx status), or it
\* answered 2xx with a body that has no data.data (the destructuring throws):
\* the catch block runs.
RefreshFailures == {0, 401, 500, 200}

RefreshCatch(r, status) ==
  /\ creq' = [creq EXCEPT ![r] = [@ EXCEPT !.pc = "done", !.refreshStatus = status,
                                            !.outcome = "rejected"]]
  /\ localStorage' = ClearTokens(localStorage)
  /\ href' = "/login"

RefreshError(r) ==
  /\ creq[r].pc = "refreshing"
  /\ \E status \in RefreshFailures : RefreshCatch(r, status)
  /\ UNCHANGED svars
  /\ UNCHANGED ovars

ClientNext ==
  \/ \E r \in Requests : Issue(r)
  \/ \E r \in Requests : ResponseOk(r)
  \/ \E r \in Requests : ResponseError(r)
  \/ \E r \in Requests : RefreshOk(r)
  \/ \E r \in Requests : RefreshError(r)

\* ------------------------------------------------------------- the server
NoDb     == Null          \* cachedDb = null
Mongoose == "mongoose"    \* what mongoose.connect resolves to
ServiceUnavailable == 503
Routed   == 200           \* next() was called: a route handler answers

Paths == {"/", "/api/health", "/api/users/profile"}

\* process.env.MONGODB_URI defined or not, NODE_ENV production or not, and the
\* installed mongoose: a second mongoose.connect(uri) made while the first is
\* still connecting either resolves together with the first (mongoose 5, 6) or
\* returns at once (mongoose 7, 8).
Environments ==
  [uriDefined : BOOLEAN, production : BOOLEAN, connectJoins : BOOLEAN]

NewRequest ==
  [pc |-> "idle", path |-> "/", status |-> NoStatus, routed |-> FALSE,
   via |-> "none", detail |-> FALSE]

UseCache_IgnoresReadyState(db, rs) == db # NoDb

\* if (cachedDb && mongoose.connection.readyState === 1)
UseCache(db, rs) == db # NoDb /\ rs = 1

\* The synchronous part of connectDB(): "cached", "throw" or "connect".
ConnectDBEntry(db, rs, e) ==
  IF UseCache(db, rs) THEN "cached"
  ELSE IF ~e.uriDefined THEN "throw"
  ELSE "connect"

\* mongoose.connect(uri) by the state of the connection: 0 starts an attempt
\* and waits for it; 2 waits with the attempt in flight or returns at once;
\* 1 returns at once.
ConnectWaits(rs, e) == rs = 0 \/ (rs = 2 /\ e.connectJoins)

MiddlewareCatch_CallsNext(q, e) ==
  [q EXCEPT !.pc = "done", !.status = Routed, !.routed = TRUE]

\* The middleware's catch: res.status(503).json({...}); next() is not called.
MiddlewareCatch(q, e) ==
  [q EXCEPT !.pc = "done", !.status = ServiceUnavailable,
            !.detail = ~e.production]

\* The middleware after connectDB() returned: next().
MiddlewareNext(q, how) ==
  [q EXCEPT !.pc = "done", !.status = Routed, !.routed = TRUE, !.via = how]

ServerInit ==
  /\ env \in Environments
  /\ cachedDb = NoDb
  /\ readyState = 0
  /\ established = FALSE
  /\ connectCalls = 0
  /\ boot = IF env.production THEN "serverless" ELSE "load"
  /\ sreq = [r \in ServerRequests |-> NewRequest]

Alive == boot # "exited"

\* startServer() (NODE_ENV not production): await connectDB(), then listen;
\* on failure process.exit(1).
StartServer ==
  /\ boot = "load"
  /\ LET entry == ConnectDBEntry(cachedDb, readyState, env) IN
     CASE entry = "cached" ->
            /\ boot' = "listening"
            /\ UNCHANGED <<readyState, connectCalls, cachedDb>>
       [] entry = "throw" ->
            /\ boot' = "exited"
            /\ UNCHANGED <<readyState, connectCalls, cachedDb>>
       [] entry = "connect" ->
            /\ connectCalls' = connectCalls + 1
            /\ IF ConnectWaits(readyState, env)
               THEN /\ boot' = "connecting"
                    /\ readyState' = 2
                    /\ UNCHANGED cachedDb
               ELSE /\ boot' = "listening"
                    /\ cachedDb' = Mongoose
                    /\ UNCHANGED readyState
  /\ UNCHANGED <<env, established, sreq>>
  /\ UNCHANGED cvars
  /\ UNCHANGED ovars

\* A request reaches the DB-connection middleware: await connectDB().
Arrive(r) ==
  /\ boot \in {"listening", "serverless"}
  /\ sreq[r].pc = "idle"
  /\ \E path \in Paths :
       LET q == [sreq[r] EXCEPT !.path = path]
           entry == ConnectDBEntry(cachedDb, readyState, env)
       IN CASE entry = "cached" ->
                 /\ sreq' = [sreq EXCEPT ![r] = MiddlewareNext(q, "cache")]
                 /\ UNCHANGED <<readyState, connectCalls, cachedDb>>
            [] entry = "throw" ->
                 /\ sreq' = [sreq EXCEPT ![r] = MiddlewareCatch(q, env)]
                 /\ UNCHANGED <<readyState, connectCalls, cachedDb>>
            [] entry = "connect" ->
                 /\ connectCalls' = connectCalls + 1
                 /\ IF ConnectWaits(readyState, env)
                    THEN /\ sreq' = [sreq EXCEPT ![r] = [q EXCEPT !.pc = "connecting"]]
                         /\ readyState' = 2
                         /\ UNCHANGED cachedDb
                    ELSE /\ sreq' = [sreq EXCEPT ![r] = MiddlewareNext(q, "connect")]
                         /\ cachedDb' = Mongoose
                         /\ UNCHANGED readyState
  /\ UNCHANGED <<env, established, boot>>
  /\ UNCHANGED cvars
  /\ UNCHANGED ovars

Waiting == {r \in ServerRequests : sreq[r].pc = "connecting"}

\* The connection attempt succeeds: every caller awaiting mongoose.connect
\* continues with cachedDb = conn and returns.
ConnectSucceeds ==
  /\ Alive
  /\ readyState = 2
  /\ readyState' = 1
  /\ established' = TRUE
  /\ cachedDb' = IF Waiting # {} \/ boot = "connecting" THEN Mongoose ELSE cachedDb
  /\ sreq' = [r \in ServerRequests |->
                IF r \in Waiting THEN MiddlewareNext(sreq[r], "connect") ELSE sreq[r]]
  /\ boot' = IF boot = "connecting" THEN "listening" ELSE boot
  /\ UNCHANGED <<env, connectCalls>>
  /\ UNCHANGED cvars
  /\ UNCHANGED ovars

\* The connection attempt fails: every caller awaiting mongoose.connect gets
\* the error; connectDB rethrows it.
ConnectFails ==
  /\ Alive
  /\ readyState = 2
  /\ readyState' = 0
  /\ established' = FALSE
  /\ sreq' = [r \in ServerRequests |->
                IF r \in Waiting THEN MiddlewareCatch(sreq[r], env) ELSE sreq[r]]
  /\ boot' = IF boot = "connecting" THEN "exited" ELSE boot
  /\ UNCHANGED <<env, connectCalls, cachedDb>>
  /\ UNCHANGED cvars
  /\ UNCHANGED ovars

\* The connection to the store is lost.
Drop ==
  /\ Alive
  /\ readyState = 1
  /\ readyState' = 0
  /\ UNCHANGED <<env, cachedDb, established, connectCalls, boot, sreq>>
  /\ UNCHANGED cvars
  /\ UNCHANGED ovars

\* The driver re-establishes a lost connection by itself.
Recover ==
  /\ Alive
  /\ readyState = 0
  /\ established
  /\ readyState' = 1
  /\ UNCHANGED <<env, cachedDb, established, connectCalls, boot, sreq>>
  /\ UNCHANGED cvars
  /\ UNCHANGED ovars

ServerNext ==
  \/ StartServer
  \/ \E r \in ServerRequests : Arrive(r)
  \/ ConnectSucceeds
  \/ ConnectFails
  \/ Drop
  \/ Recover

\* ----------------------------------------------- the refresh endpoint
\* POST /auth/refresh as the specification gives it: one refresh-token marker
\* per user; a presented token that matches it is rotated (a new refresh token
\* replaces the marker, a new access token is minted, both are returned); any
\* other token is refused with 401 and the marker is cleared.
RefreshTokenNames == <<"r0", "r1", "r2", "r3", "r4", "r5">>
RefreshTokenOf(n) == RefreshTokenNames[n + 1]

AuthServerInit == [minted |-> 0, marker |-> RefreshTokenOf(0)]

Accepts(server, presented) == presented = server.marker

Rotate(server) ==
  [minted |-> server.minted + 1, marker |-> RefreshTokenOf(server.minted + 1)]

Revoke(server) == [server EXCEPT !.marker = Null]

\* The endpoint accepts the presented refresh token and rotates it; the
\* interceptor's success path runs on the answer.
RefreshAccepted(r) ==
  /\ creq[r].pc = "refreshing"
  /\ Accepts(authServer, creq[r].refreshToken)
  /\ authServer' = Rotate(authServer)
  /\ UNCHANGED lreq
  /\ UNCHANGED avars
  /\ \E accessToken \in AccessTokens \ {""} : RefreshSuccess(r, accessToken)
  /\ UNCHANGED svars

\* The endpoint refuses the presented refresh token (RefreshTokenRevoked, 401);
\* the interceptor's catch runs.
RefreshRevoked(r) ==
  /\ creq[r].pc = "refreshing"
  /\ ~Accepts(authServer, creq[r].refreshToken)
  /\ authServer' = Revoke(authServer)
  /\ UNCHANGED lreq
  /\ UNCHANGED avars
  /\ RefreshCatch(r, 401)
  /\ UNCHANGED svars

\* The refresh call does not reach the endpoint (network error).
RefreshUnreachable(r) ==
  /\ creq[r].pc = "refreshing"
  /\ RefreshCatch(r, 0)
  /\ UNCHANGED svars
  /\ UNCHANGED ovars

RotationNext ==
  \/ \E r \in Requests : Issue(r)
  \/ \E r \in Requests : ResponseOk(r)
  \/ \E r \in Requests : ResponseError(r)
  \/ \E r \in Requests : RefreshAccepted(r)
  \/ \E r \in Requests : RefreshRevoked(r)
  \/ \E r \in Requests : RefreshUnreachable(r)

\* ------------------------------------------- GET /api/users/leaderboard
\* The 'limit' query parameter is text; the characters the model draws from.
MaxQueryLen == 4
QueryChars == {" ", "-", "0", "1", "5", "a"}
Digits == {"0", "1", "5"}
DigitValue(c) == CASE c = "0" -> 0 [] c = "1" -> 1 [] c = "5" -> 5

RECURSIVE TextsOfLen(_)
TextsOfLen(n) ==
  IF n = 0 THEN {<<>>}
  ELSE {<<c>> \o t : c \in QueryChars, t \in TextsOfLen(n - 1)}
QueryTexts == UNION {TextsOfLen(n) : n \in 0..MaxQueryLen}

\* req.query: with or without a 'limit' key.
NoQuery == [k \in {} |-> <<>>]
Queries == {NoQuery} \cup {[limit |-> t] : t \in QueryTexts}

\* const { limit = 10 } = req.query: the default applies to an absent key
\* only; parseInt turns the number 10 into the text "10" first.
DefaultLimit == 10
MaxLimit == 100
LimitOf(query) ==
  IF "limit" \in DOMAIN query THEN query.limit ELSE <<"1", "0">>

\* parseInt(text): leading white space is skipped, a sign is read, then the
\* longest run of decimal digits; NaN when that run is empty.
NaN == [nan |-> TRUE, value |-> 0]
Number(n) == [nan |-> FALSE, value |-> n]

RECURSIVE SkipWhiteSpace(_)
SkipWhiteSpace(s) ==
  IF s # <<>> /\ Head(s) = " " THEN SkipWhiteSpace(Tail(s)) ELSE s

RECURSIVE DigitPrefix(_)
DigitPrefix(s) ==
  IF s # <<>> /\ Head(s) \in Digits
    THEN <<Head(s)>> \o DigitPrefix(Tail(s))
    ELSE <<>>

RECURSIVE Decimal(_)
Decimal(ds) ==
  IF ds = <<>> THEN 0
  ELSE Decimal(SubSeq(ds, 1, Len(ds) - 1)) * 10 + DigitValue(ds[Len(ds)])

ParseInt(text) ==
  LET t      == SkipWhiteSpace(text)
      signed == t # <<>> /\ Head(t) = "-"
      body   == IF t # <<>> /\ Head(t) \in {"-", "+"} THEN Tail(t) ELSE t
      ds     == DigitPrefix(body)
  IN IF ds = <<>> THEN NaN
     ELSE Number(IF signed THEN 0 - Decimal(ds) ELSE Decimal(ds))

\* x || d: NaN and 0 are falsy.
OrElse(x, d) == IF x.nan \/ x.value = 0 THEN d ELSE x.value

MathMin(a, b) == IF a < b THEN a ELSE b

ParsedLimit(query) ==
  MathMin(OrElse(ParseInt(LimitOf(query)), DefaultLimit), MaxLimit)

NewLeaderboardRequest(query) == [pc |-> "idle", query |-> query, parsedLimit |-> 0]

LeaderboardIdle == lreq = NewLeaderboardRequest(NoQuery)

LimitInit == lreq \in {NewLeaderboardRequest(q) : q \in Queries}

\* The handler runs up to .limit(parsedLimit).
Leaderboard ==
  /\ lreq.pc = "idle"
  /\ lreq' = [lreq EXCEPT !.pc = "queried", !.parsedLimit = ParsedLimit(lreq.query)]
  /\ UNCHANGED cvars
  /\ UNCHANGED svars
  /\ UNCHANGED authServer
  /\ UNCHANGED avars

\* ------------------------------------------------ /api/users and errors
\* process.env.NODE_ENV.
NodeEnvs == {"production", "development", "test"}

\* A JavaScript object with string keys is a function on its keys.
EmptyObject == [k \in {} |-> ""]
Has(object, key) == key \in DOMAIN object
\* { ...a, ...b }: the keys of b win.
Spread(a, b) == b @@ a
\* delete object[key]
Delete(object, key) == [k \in DOMAIN object \ {key} |-> object[k]]

\* Text that the handlers trim is a sequence of characters.
RECURSIVE TrimStart(_)
TrimStart(s) == IF s # <<>> /\ Head(s) = " " THEN TrimStart(Tail(s)) ELSE s
RECURSIVE TrimEnd(_)
TrimEnd(s) ==
  IF s # <<>> /\ s[Len(s)] = " " THEN TrimEnd(SubSeq(s, 1, Len(s) - 1)) ELSE s
Trim(s) == TrimEnd(TrimStart(s))

\* null where a text is held (an avatar), and the truthiness of such a value.
NullText == <<Null>>
TextTruthy(t) == t # NullText /\ t # <<>>

\* The users collection: two stored users.
UserIds == {"u1", "u2"}
InitialUser(id) ==
  [_id          |-> id,
   email        |-> IF id = "u1" THEN "u1@eco" ELSE "u2@eco",
   role         |-> IF id = "u1" THEN "citizen" ELSE "admin",
   password     |-> IF id = "u1" THEN "hash1" ELSE "hash2",
   refreshToken |-> IF id = "u1" THEN "rt1" ELSE "rt2",
   isActive     |-> TRUE,
   name         |-> IF id = "u1" THEN <<"a">> ELSE <<"b">>,
   phone        |-> <<"7">>,
   address      |-> [city |-> "c0"],
   profile      |-> IF id = "u1" THEN [avatar |-> <<"o", "l", "d">>] ELSE EmptyObject,
   preferences  |-> EmptyObject,
   rewards      |-> [totalEarned |-> IF id = "u1" THEN 5 ELSE 9, level |-> 1]]
InitialStore == [id \in UserIds |-> InitialUser(id)]

SecretFields == {"password", "refreshToken"}
ProfileFields == {"name", "phone", "address", "profile", "preferences"}

\* req.user._id as set by authenticate: a stored user, or one deleted since.
AuthenticatedIds == UserIds \cup {"gone"}

\* A body value for address, profile or preferences: an object (JSON body) or
\* a string (multipart field) that JSON.parse accepts or not.
ObjectValue(object) == [kind |-> "object", wellFormed |-> TRUE, value |-> object]
JsonText(object) == [kind |-> "string", wellFormed |-> TRUE, value |-> object]
BrokenText == [kind |-> "string", wellFormed |-> FALSE, value |-> EmptyObject]

Bodies ==
  { EmptyObject,
    [name |-> <<" ", "c", " ">>, phone |-> <<" ">>],
    [name |-> <<"c">>, _id |-> "u2", email |-> "x@evil", role |-> "admin",
     password |-> "pwned", refreshToken |-> "forged", isActive |-> FALSE],
    [address |-> ObjectValue([street |-> "s1"]),
     profile |-> JsonText([bio |-> "hi", password |-> "inner"]),
     preferences |-> BrokenText] }

DotPng == <<".", "p", "n", "g">>
DotJpg == <<".", "j", "p", "g">>
DotTxt == <<".", "t", "x", "t">>
ImagePng == <<"i", "m", "a", "g", "e", "/", "p", "n", "g">>
ImageJpeg == <<"i", "m", "a", "g", "e", "/", "j", "p", "e", "g">>
TextPlain == <<"t", "e", "x", "t", "/", "p", "l", "a", "i", "n">>

\* The uploaded file of field 'avatar', if any: the lower-cased extension of
\* its name and its mime type as texts, its size in MB.
NoFile == [present |-> FALSE, extname |-> <<>>, mimetype |-> <<>>, size |-> 0]
File(extname, mimetype, size) ==
  [present |-> TRUE, extname |-> extname, mimetype |-> mimetype, size |-> size]
Files ==
  { NoFile,
    File(DotPng, ImagePng, 1),
    File(DotPng, ImagePng, 6),
    File(DotJpg, ImageJpeg, 1),
    File(DotPng, TextPlain, 1),
    File(DotTxt, TextPlain, 1) }

\* An error object: name, message, status (0 when unset), the messages of
\* err.errors (a Mongoose ValidationError), and its stack.
Err(name, message, status, errors) ==
  [name |-> name, message |-> message, status |-> status, errors |-> errors,
   stack |-> "stack"]

\* multer: upload.single('avatar'). The file filter tests the extension and
\* the mime type against /jpeg|jpg|png|gif|webp/; the size limit is 5 MB.
FileSizeLimit == 5
AllowedTypes ==
  { <<"j", "p", "e", "g">>, <<"j", "p", "g">>, <<"p", "n", "g">>,
    <<"g", "i", "f">>, <<"w", "e", "b", "p">> }
Contains(s, part) ==
  \E i \in 1..(Len(s) - Len(part) + 1) : SubSeq(s, i, i + Len(part) - 1) = part
AllowedTypesTest(s) == \E part \in AllowedTypes : Contains(s, part)
FileFilterError ==
  Err("Error", "Only image files (JPEG, PNG, GIF, WebP) are allowed", 0, <<>>)
FileTooLarge == Err("MulterError", "File too large", 0, <<>>)
NoError == Err("", "", 0, <<>>)

\* The error upload.single passes to next(), or NoError when the file is
\* accepted or there is none.
Upload(file) ==
  IF ~file.present THEN NoError
  ELSE IF ~(AllowedTypesTest(file.extname) /\ AllowedTypesTest(file.mimetype))
    THEN FileFilterError
  ELSE IF file.size > FileSizeLimit THEN FileTooLarge
  ELSE NoError

DataUrl(file) ==
  <<"d", "a", "t", "a", ":">> \o file.mimetype
    \o <<";", "b", "a", "s", "e", "6", "4", ",">>

\* Errors the store raises under await (findById, save, countDocuments).
SaveValidationError ==
  Err("ValidationError", "User validation failed", 0, <<"Name too long">>)
StoreError == Err("MongoNetworkError", "connection closed", 0, <<>>)

\* Errors that other middleware and routers pass to next(err).
ForwardedErrors ==
  { SaveValidationError,
    Err("JsonWebTokenError", "jwt malformed", 0, <<>>),
    Err("TokenExpiredError", "jwt expired", 0, <<>>),
    Err("MulterError", "Unexpected field", 0, <<>>),
    Err("SyntaxError", "Unexpected token", 400, <<>>),
    Err("PayloadTooLargeError", "request entity too large", 413, <<>>),
    Err("Error", "boom", 0, <<>>),
    Err("CastError", "Cast to ObjectId failed", 0, <<>>) }

\* res.status(status).json(body): keys whose value is undefined are left out.
Response(status, body) == [status |-> status, body |-> body]
Failure(message) == [success |-> FALSE, message |-> message]
WithKey(body, key, present, value) ==
  IF present THEN Spread(body, [k \in {key} |-> value]) ELSE body

\* Variant: the handler ignores the error's name.
ErrorHandler_IgnoresName(err, mode) ==
  <<Response(IF err.status # 0 THEN err.status ELSE 500,
             WithKey(Failure(IF mode = "production"
                               THEN "Something went wrong!"
                               ELSE err.message),
                     "stack", mode # "production", err.stack))>>

\* app.use((err, req, res, next) => ...): the responses it sends, in order.
ErrorHandler(err, mode) ==
  IF err.name = "ValidationError"
    THEN <<Response(400, WithKey(Failure("Validation Error"), "errors", TRUE, err.errors))>>
  ELSE IF err.name = "JsonWebTokenError"
    THEN <<Response(401, Failure("Invalid token"))>>
  ELSE IF err.name = "TokenExpiredError"
    THEN <<Response(401, Failure("Token expired"))>>
  ELSE IF err.name = "MulterError"
    THEN <<Response(400, WithKey(Failure("File upload error"), "error", TRUE, err.message))>>
  ELSE <<Response(IF err.status # 0 THEN err.status ELSE 500,
                  WithKey(Failure(IF mode = "production"
                                    THEN "Something went wrong!"
                                    ELSE err.message),
                          "stack", mode # "production", err.stack))>>

\* The catch blocks of the users routes: error only in development.
RouteFailure(message, err, mode) ==
  Response(500, WithKey(Failure(message), "error", mode = "development", err.message))

ProfileFailure(err, mode) ==
  IF err.name = "ValidationError"
    THEN Response(400, WithKey(Failure("Validation error"), "errors", TRUE, err.errors))
    ELSE RouteFailure("Failed to update profile", err, mode)

UserNotFound == Response(404, Failure("User not found"))

\* safeParse(data) for a truthy data.
SafeParse(data) ==
  IF data.kind = "string"
    THEN IF data.wellFormed THEN data.value ELSE EmptyObject
    ELSE data.value

\* if (text && text.trim())
TrimsToText(body, key) ==
  Has(body, key) /\ body[key] # <<>> /\ Trim(body[key]) # <<>>

\* Variant: every key of the body is assigned to the document.
UpdateProfile_AssignsBody(user, body, file) ==
  LET own == (DOMAIN body \cap DOMAIN user) \ ProfileFields
  IN [doc |-> [k \in DOMAIN user |-> IF k \in own THEN body[k] ELSE user[k]],
      modified |-> own]

\* PUT /profile between findById and save: the document with the five fields
\* assigned from the body and the uploaded file, and the paths it modified.
UpdateProfile(user, body, file) ==
  LET merged(key) == IF Has(body, key)
                       THEN Spread(user[key], SafeParse(body[key]))
                       ELSE user[key]
      profile == IF file.present
                   THEN Spread(merged("profile"), [avatar |-> DataUrl(file)])
                   ELSE merged("profile")
  IN [doc |-> [user EXCEPT
                 !.name = IF TrimsToText(body, "name") THEN Trim(body.name) ELSE @,
                 !.phone = IF TrimsToText(body, "phone") THEN Trim(body.phone) ELSE @,
                 !.address = merged("address"),
                 !.profile = profile,
                 !.preferences = merged("preferences")],
      modified |-> {k \in {"name", "phone"} : TrimsToText(body, k)}
                    \cup {k \in {"address", "profile", "preferences"} : Has(body, k)}
                    \cup (IF file.present THEN {"profile"} ELSE {})]

\* user.save(): the modified paths of the document are written to its record.
Save(users, doc, modified) ==
  [users EXCEPT ![doc._id] =
     [k \in DOMAIN @ |-> IF k \in modified THEN doc[k] ELSE @[k]]]

\* Variant: the refresh token stays in the response object.
UserResponse_KeepsRefreshToken(doc) == Delete(doc, "password")

\* .select('-password -refreshToken')
SelectPublic(user) == Delete(Delete(user, "password"), "refreshToken")

\* toObject(), delete userResponse.password, delete userResponse.refreshToken
UserResponse(doc) == Delete(Delete(doc, "password"), "refreshToken")

ProfileFetched(userObject, reports, trainings) ==
  Response(200,
    [success |-> TRUE,
     data |-> [user |-> Spread(userObject,
                 [statistics |-> [reportsSubmitted |-> reports,
                                  trainingCompleted |-> trainings]])]])

ProfileUpdated(doc) ==
  Response(200, [success |-> TRUE, message |-> "Profile updated successfully",
                 data |-> [user |-> UserResponse(doc)]])

AvatarRemoved == Response(200, [success |-> TRUE, message |-> "Avatar removed successfully"])

\* User.find({ isActive: true }).select(...).sort({ 'rewards.totalEarned': -1 })
\* .limit(parsedLimit).lean()
Descending(users, order) ==
  \A i \in 1..Len(order) - 1 :
    users[order[i]].rewards.totalEarned >= users[order[i + 1]].rewards.totalEarned
Ranked(users) ==
  LET active == {id \in DOMAIN users : users[id].isActive}
  IN CHOOSE order \in [1..Cardinality(active) -> active] :
       /\ \A id \in active : \E i \in DOMAIN order : order[i] = id
       /\ Descending(users, order)
\* The number of documents a query with .limit(n) returns out of available
\* ones: all of them for 0, at most |n| otherwise (a negative limit is read
\* as its absolute value).
Limited(n, available) ==
  IF n = 0 THEN available
  ELSE MathMin(IF n < 0 THEN 0 - n ELSE n, available)
TopUsers(users, parsedLimit) ==
  LET order == Ranked(users)
  IN [i \in 1..Limited(parsedLimit, Len(order)) |-> users[order[i]]]

\* countDocuments({ isActive: true, 'rewards.totalEarned': { $gt: ... } }) + 1
UserRank(users, me) ==
  Cardinality({id \in DOMAIN users :
                 users[id].isActive
                   /\ users[id].rewards.totalEarned > me.rewards.totalEarned}) + 1

\* x || d for a number x
OrNumber(x, d) == IF x = 0 THEN d ELSE x

LeaderboardFetched(top, rank, me) ==
  Response(200,
    [success |-> TRUE,
     data |-> [leaderboard |->
                 [i \in DOMAIN top |->
                    [rank |-> i,
                     name |-> top[i].name,
                     avatar |-> IF Has(top[i].profile, "avatar")
                                     /\ TextTruthy(top[i].profile.avatar)
                                  THEN top[i].profile.avatar ELSE NullText,
                     points |-> OrNumber(top[i].rewards.totalEarned, 0),
                     level |-> OrNumber(top[i].rewards.level, 1)]],
               currentUser |-> [rank |-> rank,
                                points |-> OrNumber(me.rewards.totalEarned, 0),
                                level |-> OrNumber(me.rewards.level, 1)]]])

\* ------------------------------------------------------- request handling
NumApiRequests == 1
ApiRequests == 1..NumApiRequests

LeaderboardQueries == {NoQuery, [limit |-> <<"1">>], [limit |-> <<"-", "1">>]}
DocumentCounts == {0, 3}

NewApiRequest ==
  [pc |-> "idle", route |-> "", userId |-> "", body |-> EmptyObject,
   file |-> NoFile, query |-> NoQuery, err |-> NoError, handled |-> FALSE,
   doc |-> EmptyObject, modified |-> {}, out |-> <<>>]

ApiInit ==
  /\ nodeEnv \in NodeEnvs
  /\ store = InitialStore
  /\ areq = [r \in ApiRequests |-> NewApiRequest]

\* A request that reached its route, and next(err) into the error handler.
Enter(q, route, userId) ==
  [q EXCEPT !.pc = "finding", !.route = route, !.userId = userId]
Handled(q, err) ==
  [q EXCEPT !.pc = "done", !.err = err, !.handled = TRUE,
            !.out = @ \o ErrorHandler(err, nodeEnv)]
Answer(q, response) == [q EXCEPT !.pc = "done", !.out = Append(@, response)]

GetProfile(r) ==
  /\ areq[r].pc = "idle"
  /\ \E userId \in AuthenticatedIds :
       areq' = [areq EXCEPT ![r] = Enter(@, "GET /profile", userId)]
  /\ UNCHANGED <<nodeEnv, store>>
  /\ UNCHANGED <<cvars, svars, authServer, lreq>>

\* upload.single('avatar') runs before the handler.
PutProfile(r) ==
  /\ areq[r].pc = "idle"
  /\ \E userId \in AuthenticatedIds, body \in Bodies, file \in Files :
       LET q == [Enter(areq[r], "PUT /profile", userId)
                   EXCEPT !.body = body, !.file = file]
       IN areq' = [areq EXCEPT ![r] =
                     IF Upload(file) = NoError THEN q ELSE Handled(q, Upload(file))]
  /\ UNCHANGED <<nodeEnv, store>>
  /\ UNCHANGED <<cvars, svars, authServer, lreq>>

GetLeaderboard(r) ==
  /\ areq[r].pc = "idle"
  /\ \E userId \in UserIds, query \in LeaderboardQueries :
       areq' = [areq EXCEPT ![r] =
                  [Enter(@, "GET /leaderboard", userId) EXCEPT !.query = query]]
  /\ UNCHANGED <<nodeEnv, store>>
  /\ UNCHANGED <<cvars, svars, authServer, lreq>>

DeleteAvatar(r) ==
  /\ areq[r].pc = "idle"
  /\ \E userId \in AuthenticatedIds :
       areq' = [areq EXCEPT ![r] = Enter(@, "DELETE /profile/avatar", userId)]
  /\ UNCHANGED <<nodeEnv, store>>
  /\ UNCHANGED <<cvars, svars, authServer, lreq>>

\* Another middleware or router passes an error to next(err).
Forwarded(r) ==
  /\ areq[r].pc = "idle"
  /\ \E err \in ForwardedErrors :
       areq' = [areq EXCEPT ![r] = Handled([@ EXCEPT !.route = "elsewhere"], err)]
  /\ UNCHANGED <<nodeEnv, store>>
  /\ UNCHANGED <<cvars, svars, authServer, lreq>>

\* The catch block of the route the request is in.
RouteCatch(q, err) ==
  CASE q.route = "GET /profile" -> RouteFailure("Failed to fetch profile", err, nodeEnv)
    [] q.route = "PUT /profile" -> ProfileFailure(err, nodeEnv)
    [] q.route = "GET /leaderboard" -> RouteFailure("Failed to fetch leaderboard", err, nodeEnv)
    [] q.route = "DELETE /profile/avatar" -> Response(500, Failure("Failed to remove avatar"))

\* An awaited store call rejects; save() may reject with a ValidationError.
StoreFails(r) ==
  /\ areq[r].pc \in {"finding", "counting", "saving"}
  /\ \E err \in {StoreError} \cup (IF areq[r].pc = "saving" THEN {SaveValidationError} ELSE {}) :
       areq' = [areq EXCEPT ![r] = Answer([@ EXCEPT !.err = err], RouteCatch(@, err))]
  /\ UNCHANGED <<nodeEnv, store>>
  /\ UNCHANGED <<cvars, svars, authServer, lreq>>

\* DELETE /profile/avatar after findById.
AvatarCleared(user) == [user EXCEPT !.profile = Spread(@, [avatar |-> NullText])]
HasAvatar(user) == Has(user.profile, "avatar") /\ TextTruthy(user.profile.avatar)

\* The first awaited store call of the handler resolves.
Found(r) ==
  LET q == areq[r]
      missing == q.userId \notin DOMAIN store
      user == store[q.userId]
      update == UpdateProfile(user, q.body, q.file)
      saving(doc, modified) ==
        [q EXCEPT !.pc = "saving", !.doc = doc, !.modified = modified]
  IN /\ q.pc = "finding"
     /\ areq' = [areq EXCEPT ![r] =
          CASE q.route = "GET /leaderboard" ->
                 [q EXCEPT !.pc = "counting",
                           !.doc = TopUsers(store, ParsedLimit(q.query))]
            [] q.route # "GET /leaderboard" /\ missing -> Answer(q, UserNotFound)
            [] q.route = "GET /profile" /\ ~missing ->
                 [q EXCEPT !.pc = "counting", !.doc = SelectPublic(user)]
            [] q.route = "PUT /profile" /\ ~missing ->
                 saving(update.doc, update.modified)
            [] q.route = "DELETE /profile/avatar" /\ ~missing ->
                 IF HasAvatar(user)
                   THEN saving(AvatarCleared(user), {"profile"})
                   ELSE Answer(q, AvatarRemoved)]
     /\ UNCHANGED <<nodeEnv, store>>
     /\ UNCHANGED <<cvars, svars, authServer, lreq>>

\* The countDocuments calls resolve and the handler answers.
Counted(r) ==
  LET q == areq[r]
  IN /\ q.pc = "counting"
     /\ \E reports \in DocumentCounts, trainings \in DocumentCounts :
          areq' = [areq EXCEPT ![r] =
            IF q.route = "GET /profile"
              THEN Answer(q, ProfileFetched(q.doc, reports, trainings))
              ELSE Answer(q, LeaderboardFetched(q.doc,
                                UserRank(store, store[q.userId]), store[q.userId]))]
     /\ UNCHANGED <<nodeEnv, store>>
     /\ UNCHANGED <<cvars, svars, authServer, lreq>>

\* user.save() resolves and the handler answers.
Saved(r) ==
  LET q == areq[r]
  IN /\ q.pc = "saving"
     /\ store' = Save(store, q.doc, q.modified)
     /\ areq' = [areq EXCEPT ![r] =
          IF q.route = "PUT /profile"
            THEN Answer(q, ProfileUpdated(q.doc))
            ELSE Answer(q, AvatarRemoved)]
     /\ UNCHANGED nodeEnv
     /\ UNCHANGED <<cvars, svars, authServer, lreq>>

ApiNext ==
  \/ \E r \in ApiRequests : GetProfile(r)
  \/ \E r \in ApiRequests : PutProfile(r)
  \/ \E r \in ApiRequests : GetLeaderboard(r)
  \/ \E r \in ApiRequests : DeleteAvatar(r)
  \/ \E r \in ApiRequests : Forwarded(r)
  \/ \E r \in ApiRequests : Found(r)
  \/ \E r \in ApiRequests : Counted(r)
  \/ \E r \in ApiRequests : Saved(r)
  \/ \E r \in ApiRequests : StoreFails(r)

ApiIdle ==
  /\ ApiInit
  /\ nodeEnv = IF env.production THEN "production" ELSE "development"

AuthServerIdle == authServer = AuthServerInit
OthersIdle == AuthServerIdle /\ LeaderboardIdle /\ ApiIdle

\* ---------------------------------------------------------- specifications
Init == ClientInit /\ ServerInit /\ OthersIdle
Next == ClientNext \/ ServerNext \/ ApiNext \/ Leaderboard
Spec == Init /\ [][Next]_vars

\* The client alone, next to a server that is not started.
ServerIdle ==
  /\ ServerInit
  /\ env = [uriDefined |-> TRUE, production |-> TRUE, connectJoins |-> TRUE]

ClientSpecInit == ClientInit /\ ServerIdle /\ OthersIdle
ClientSpec == ClientSpecInit /\ [][ClientNext]_vars

\* Every request sent through the api instance is eventually answered or
\* fails: the instance has timeout: 30000.  The refresh call is made with the
\* default axios, which has no timeout, so nothing makes it end.
ClientFairSpec ==
  /\ ClientSpec
  /\ \A r \in Requests : WF_vars(ResponseOk(r) \/ ResponseError(r))

\* The server alone, with no client request in progress.
ClientIdle ==
  /\ ClientInit
  /\ localStorage = [token |-> Null, refreshToken |-> Null]

ServerSpecInit == ServerInit /\ ClientIdle /\ OthersIdle
ServerSpec == ServerSpecInit /\ [][ServerNext]_vars

\* The client against the rotating refresh endpoint.
RotationSpecInit == ClientInit /\ ServerIdle /\ OthersIdle
RotationSpec == RotationSpecInit /\ [][RotationNext]_vars

\* The leaderboard's limit computation over every query.
LimitSpecInit == ClientIdle /\ ServerIdle /\ AuthServerIdle /\ ApiIdle /\ LimitInit
LimitSpec == LimitSpecInit /\ [][Leaderboard]_vars

\* The users routes and the error handler, in every NODE_ENV.
ApiSpecInit ==
  /\ ClientIdle /\ ServerIdle /\ AuthServerIdle /\ LeaderboardIdle
  /\ ApiInit
ApiSpec == ApiSpecInit /\ [][ApiNext]_vars

\* ---------------------------------------------------- client properties
\* Steps of request r, recognised from the states before and after.
Answered(r)     == creq[r].pc = "sent" /\ creq'[r].pc # "sent"
Answered401(r)  == Answered(r) /\ creq'[r].status = 401
RefreshEnded(r) == creq[r].pc = "refreshing" /\ creq'[r].pc # "refreshing"
RefreshSucceeded(r) == RefreshEnded(r) /\ creq'[r].accessToken # Null
RefreshFailed(r)    == RefreshEnded(r) /\ creq'[r].accessToken = Null
Sent(r)         == creq'[r].sends = creq[r].sends + 1
ForcedToLogin   == /\ GetItem(localStorage, "token") = Null
                   /\ GetItem(localStorage, "refreshToken") = Null
                   /\ href = "/login"

\* C1: a 401 on a request not yet retried, with a refresh token stored, makes
\* one refresh call with the stored refresh token; when that call succeeds the
\* returned access token is stored under 'token' and the request is sent once
\* more carrying Bearer <that token>.  No request sees more than one refresh
\* call or more than one re-send.
C1_RefreshAndRetryOnce ==
  /\ [](\A r \in Requests : creq[r].refreshCalls <= 1 /\ creq[r].sends <= 2)
  /\ [][\A r \in Requests :
         /\ (Answered401(r) /\ ~creq[r].retry
                /\ Truthy(GetItem(localStorage, "refreshToken")))
              => /\ creq'[r].pc = "refreshing"
                 /\ creq'[r].refreshCalls = creq[r].refreshCalls + 1
                 /\ creq'[r].refreshToken = GetItem(localStorage, "refreshToken")
                 /\ creq'[r].sends = creq[r].sends
         /\ RefreshSucceeded(r)
              => /\ GetItem(localStorage', "token") = creq'[r].accessToken
                 /\ creq'[r].pc = "sent"
                 /\ creq'[r].sends = creq[r].sends + 1
                 /\ creq'[r].auth = Bearer(creq'[r].accessToken)]_vars

C1_Witness ==
  \E r \in Requests :
    /\ creq[r].pc = "sent" /\ creq[r].retry /\ creq[r].sends = 2
    /\ creq[r].refreshCalls = 1 /\ creq[r].refreshToken = "r0"
    /\ creq[r].accessToken = "a1" /\ creq[r].auth = Bearer("a1")
    /\ GetItem(localStorage, "token") = "a1"

\* C2: when the refresh call fails (network error, non-2xx status, or a body
\* without data.data) the handler ends with 'token' and 'refreshToken' removed,
\* the location set to /login, the request not sent again and the caller's
\* promise rejected.
C2_RefreshFailureForcesLogin ==
  /\ [][\A r \in Requests :
         RefreshFailed(r)
           => /\ GetItem(localStorage', "token") = Null
              /\ GetItem(localStorage', "refreshToken") = Null
              /\ href' = "/login"
              /\ creq'[r].sends = creq[r].sends
              /\ creq'[r].pc = "done"
              /\ creq'[r].outcome = "rejected"]_vars
  /\ [](\A r \in Requests :
         (creq[r].refreshStatus # NoStatus /\ creq[r].accessToken = Null)
           => creq[r].sends = 1 /\ creq[r].outcome = "rejected")

C2_Witness ==
  \E r \in Requests :
    /\ creq[r].pc = "done" /\ creq[r].refreshStatus = 500
    /\ creq[r].accessToken = Null /\ creq[r].outcome = "rejected"
    /\ creq[r].sends = 1 /\ ForcedToLogin

\* C3: a request already marked _retry that receives a 401 is neither sent
\* again nor followed by another refresh call; its promise is rejected, and a
\* settled request is never touched again.
C3_SecondUnauthorizedSurfaces ==
  [][\A r \in Requests :
       /\ (Answered401(r) /\ creq[r].retry)
            => /\ creq'[r].pc = "done"
               /\ creq'[r].outcome = "rejected"
               /\ creq'[r].sends = creq[r].sends
               /\ creq'[r].refreshCalls = creq[r].refreshCalls
       /\ creq[r].pc = "done" => creq'[r] = creq[r]]_vars

C3_Witness ==
  \E r \in Requests :
    /\ creq[r].pc = "done" /\ creq[r].retry /\ creq[r].sends = 2
    /\ creq[r].status = 401 /\ creq[r].refreshCalls = 1
    /\ creq[r].outcome = "rejected"

\* C4: no retry loop.  Every request is sent at most twice, at most one
\* refresh call is made for it, and once issued its promise eventually settles,
\* whatever the server and the refresh endpoint answer.  (The two bounds hold
\* in every behaviour; the promise of a request whose refresh call is never
\* answered stays pending.)
C4_NoInfiniteRetry ==
  /\ [](\A r \in Requests : creq[r].sends <= 2 /\ creq[r].refreshCalls <= 1)
  /\ \A r \in Requests :
       (creq[r].pc # "idle") ~> (creq[r].outcome # "pending")

\* C5: every request that finally fails with 401 leaves the client with its
\* stored tokens cleared and the location at /login.
C5_EveryTokenErrorForcesLogin ==
  \A r \in Requests :
    (creq[r].pc = "done" /\ creq[r].outcome = "rejected" /\ creq[r].status = 401)
      => ForcedToLogin

\* C6: every request that goes out, the re-sent one included, carries
\* Bearer <t> for the token t stored under 'token' when the request
\* interceptor runs, if one is stored; if none is stored the interceptor adds
\* nothing: a first send carries no Authorization header and a re-send keeps
\* the header the error handler put on it.
C6_AttachesStoredToken ==
  [][\A r \in Requests :
       Sent(r) =>
         LET token == GetItem(localStorage', "token") IN
         IF Truthy(token)
         THEN creq'[r].auth = Bearer(token)
         ELSE creq'[r].auth = IF creq[r].sends = 0 THEN NoHeader
                               ELSE Bearer(creq'[r].accessToken)]_vars

C6_Witness ==
  \E r1, r2 \in Requests :
    /\ creq[r1].sends = 2 /\ creq[r1].pc = "sent"
    /\ Truthy(GetItem(localStorage, "token"))
    /\ creq[r1].auth = Bearer(GetItem(localStorage, "token"))
    /\ creq[r2].sends = 1 /\ creq[r2].pc = "sent" /\ creq[r2].auth = NoHeader

\* ---------------------------------------------------- server properties
\* Steps of HTTP request r, recognised from the states before and after.
EntersConnectDB(r) == sreq[r].pc = "idle" /\ sreq'[r].pc # "idle"
ConnectInvoked     == connectCalls' = connectCalls + 1
\* connectDB() throws for r: MONGODB_URI is undefined on entry, or the attempt
\* r awaits fails.
ConnectDBThrows(r) ==
  \/ EntersConnectDB(r) /\ ~UseCache(cachedDb, readyState) /\ ~env.uriDefined
  \/ sreq[r].pc = "connecting" /\ readyState = 2 /\ readyState' = 0

\* C7: concurrent cold-start requests are single-flighted: mongoose.connect is
\* never invoked while an earlier invocation is still connecting.
C7_SingleFlightConnect ==
  [][ConnectInvoked => readyState # 2]_vars

\* C8: once cachedDb is set, a connectDB call made in readyState 1 returns the
\* cached handle and does not invoke mongoose.connect; a call made in any other
\* readyState does not take the cached handle and invokes mongoose.connect.
C8_CacheReuse ==
  [][\A r \in ServerRequests :
       (EntersConnectDB(r) /\ cachedDb # NoDb)
         => IF readyState = 1
            THEN /\ sreq'[r].via = "cache"
                 /\ sreq'[r].routed
                 /\ connectCalls' = connectCalls
                 /\ cachedDb' = cachedDb
            ELSE /\ sreq'[r].via # "cache"
                 /\ ConnectInvoked]_vars

C8_Witness ==
  \E r1, r2 \in ServerRequests :
    /\ sreq[r1].pc = "done" /\ sreq[r1].via = "cache"
    /\ sreq[r2].pc = "connecting" /\ cachedDb = Mongoose
    /\ env.connectJoins /\ connectCalls = 2

\* C9 as stated: a request for which connectDB throws is answered 503, no
\* route handler runs for it, and cachedDb is unset afterwards.  Stated for a
\* mongoose whose concurrent connect calls share one attempt, where no call
\* returns while the connection is still being made: the statement fails
\* there after an earlier success and a lost connection.  (With the other
\* mongoose it fails on a cold start as well.)
C9_FailureLeavesCacheUnset ==
  [][\A r \in ServerRequests :
       (env.connectJoins /\ ConnectDBThrows(r))
         => /\ sreq'[r].status = ServiceUnavailable
            /\ ~sreq'[r].routed
            /\ cachedDb' = NoDb]_vars

\* Some connectDB call has returned from mongoose.connect (line 80 has run):
\* startServer's, or a request's.
ReturnedFromConnect ==
  \/ boot = "listening"
  \/ \E r \in ServerRequests : sreq[r].via = "connect"

\* C9 amended, in every environment: a request for which connectDB throws
\* (MONGODB_URI undefined included) is answered 503 and no route handler runs
\* for it, whatever its path; the throwing call neither sets nor clears
\* cachedDb, which is unset exactly as long as no connectDB call, earlier or
\* concurrent, has returned from mongoose.connect, and holds that handle from
\* then on; every call made while the cache test fails throws again or invokes
\* mongoose.connect again.
C9_FailureLeavesCacheUnchanged ==
  /\ [][\A r \in ServerRequests :
         /\ ConnectDBThrows(r)
              => /\ sreq'[r].pc = "done"
                 /\ sreq'[r].status = ServiceUnavailable
                 /\ ~sreq'[r].routed
                 /\ cachedDb' = cachedDb
         /\ (EntersConnectDB(r) /\ ~UseCache(cachedDb, readyState))
              => \/ sreq'[r].status = ServiceUnavailable
                 \/ ConnectInvoked]_vars
  /\ [](cachedDb = NoDb <=> ~ReturnedFromConnect)
  /\ [](cachedDb # NoDb => cachedDb = Mongoose)
  /\ [](\A r \in ServerRequests :
         sreq[r].status = ServiceUnavailable => ~sreq[r].routed)

C9_Witness ==
  \E r1, r2 \in ServerRequests :
    /\ sreq[r1].status = ServiceUnavailable /\ sreq[r1].path = "/api/health"
    /\ ~sreq[r1].routed /\ cachedDb = Mongoose
    /\ sreq[r2].pc = "connecting" /\ connectCalls >= 2

\* C10: an unreachable backing store never ends the process, at startup or
\* per request.
C10_StoreFailureNeverExits == boot # "exited"

\* C14 as stated: the refresh attempts of one client are serialized: no two
\* calls to the refresh endpoint are in flight at the same time.
RefreshInFlight == {r \in Requests : creq[r].pc = "refreshing"}

C14_OneRefreshInFlight == Cardinality(RefreshInFlight) <= 1

\* C14 amended: refresh attempts are serialized per request only.  A request
\* starts a refresh call only on the 401 answer to its first send, and never
\* a second one; calls made for different requests may overlap.
C14_OneRefreshPerRequest ==
  /\ [][\A r \in Requests :
         creq'[r].refreshCalls # creq[r].refreshCalls
           => /\ Answered401(r)
              /\ ~creq[r].retry
              /\ creq[r].sends = 1
              /\ creq[r].refreshCalls = 0
              /\ creq'[r].refreshCalls = 1]_vars
  /\ [][\A r \in Requests :
         (creq[r].pc = "refreshing" /\ creq'[r].pc # "refreshing")
           => creq'[r].pc \in {"sent", "done"} /\ creq'[r].retry]_vars

C14_Witness ==
  /\ Cardinality(RefreshInFlight) >= 2
  /\ \A r \in RefreshInFlight : creq[r].refreshCalls = 1 /\ creq[r].refreshToken = "r0"

\* C17: once a handler has cleared the tokens and set the location to /login,
\* no other handler stores an access token again: when no request is in
\* flight, the client is not both at /login and holding a truthy 'token'.
Quiescent == \A r \in Requests : creq[r].pc \in {"idle", "done"}

C17_LoginMeansNoToken ==
  (Quiescent /\ href = "/login") => ~Truthy(GetItem(localStorage, "token"))

\* C18: whenever the DB-connection middleware calls next() for a request, the
\* mongoose connection is in readyState 1, also for a request that arrived
\* while another request's connect was in progress.
C18_NextOnlyWhenConnected ==
  [][\A r \in ServerRequests :
       (~sreq[r].routed /\ sreq'[r].routed) => readyState' = 1]_vars

\* C16: against the rotating refresh endpoint, once the interceptor has
\* completed a successful refresh, the refresh token in client storage is the
\* one the endpoint accepts now.
C16_StoredRefreshTokenIsCurrent ==
  [][\A r \in Requests :
       RefreshSucceeded(r)
         => Accepts(authServer', GetItem(localStorage', "refreshToken"))]_vars

\* C19: for every value of the 'limit' query parameter the number of entries
\* asked of the store is between 1 and 100, and it is 10 when the parameter is
\* absent, zero or not a number.
C19_LimitBetween1And100 ==
  lreq.pc = "queried"
    => /\ lreq.parsedLimit \in 1..100
       /\ LET n == ParseInt(LimitOf(lreq.query))
          IN ("limit" \notin DOMAIN lreq.query \/ n.nan \/ n.value = 0)
               => lreq.parsedLimit = 10

\* -------------------------------------------------------- api properties
Responses(r) == {areq[r].out[i] : i \in DOMAIN areq[r].out}
PlainFailureKeys == {"success", "message"}

\* C11: in production every error response carries success and message only.
C11_ProductionErrorsCarryNoDetail ==
  nodeEnv = "production"
    => \A r \in ApiRequests : \A response \in Responses(r) :
         response.status >= 400 => DOMAIN response.body \subseteq PlainFailureKeys

\* The user-shaped objects of a response body.
UserObjects(body) ==
  IF ~Has(body, "data") THEN {}
  ELSE (IF Has(body.data, "user") THEN {body.data.user} ELSE {})
         \cup (IF Has(body.data, "leaderboard")
                 THEN {body.data.leaderboard[i] : i \in DOMAIN body.data.leaderboard}
                        \cup {body.data.currentUser}
                 ELSE {})

\* C12: no response of a users route, success or error, has a password or
\* refreshToken field, at the top of its body or in a user object it carries.
C12_NoSecretInResponse ==
  \A r \in ApiRequests : \A response \in Responses(r) :
    /\ DOMAIN response.body \cap SecretFields = {}
    /\ \A object \in UserObjects(response.body) : DOMAIN object \cap SecretFields = {}

C12_Witness ==
  \E r \in ApiRequests :
    /\ areq[r].pc = "done" /\ areq[r].route \in {"GET /profile", "PUT /profile"}
    /\ \E response \in Responses(r) :
         /\ response.status = 200
         /\ \E object \in UserObjects(response.body) :
              Has(object, "email") /\ object.email = store[areq[r].userId].email
    /\ SecretFields \subseteq DOMAIN store[areq[r].userId]
    /\ store[areq[r].userId].password = InitialUser(areq[r].userId).password

\* C13: a step of a PUT /profile request changes nothing in the store but
\* name, phone, address, profile and preferences of the authenticated user.
C13_UpdateTouchesOnlyProfileFields ==
  [][\A r \in ApiRequests :
       (areq'[r].route = "PUT /profile" /\ areq'[r].pc # areq[r].pc)
         => /\ DOMAIN store' = DOMAIN store
            /\ \A id \in DOMAIN store :
                 /\ DOMAIN store'[id] = DOMAIN store[id]
                 /\ \A k \in DOMAIN store[id] :
                      store'[id][k] # store[id][k]
                        => id = areq[r].userId /\ k \in ProfileFields]_vars

C13_Witness ==
  \E r \in ApiRequests :
    /\ areq[r].pc = "done" /\ areq[r].route = "PUT /profile"
    /\ Has(areq[r].body, "role") /\ Has(areq[r].body, "password")
    /\ \E response \in Responses(r) : response.status = 200
    /\ store[areq[r].userId].name = Trim(areq[r].body.name)
    /\ store[areq[r].userId].name # InitialUser(areq[r].userId).name
    /\ store[areq[r].userId].role = InitialUser(areq[r].userId).role

\* The status the error handler's table gives an error.
StatusByName(err) ==
  CASE err.name \in {"JsonWebTokenError", "TokenExpiredError"} -> 401
    [] err.name \in {"ValidationError", "MulterError"} -> 400
    [] OTHER -> IF err.status # 0 THEN err.status ELSE 500

RejectedByFileFilter(r) ==
  /\ areq[r].route = "PUT /profile" /\ areq[r].file.present
  /\ ~(AllowedTypesTest(areq[r].file.extname) /\ AllowedTypesTest(areq[r].file.mimetype))

\* C15: the error handler answers each error once, with the status its name
\* gives; an upload the file filter rejects is answered with 500.
C15_StatusFromErrorName ==
  \A r \in ApiRequests :
    /\ areq[r].handled
         => /\ Len(areq[r].out) = 1
            /\ areq[r].out[1].status = StatusByName(areq[r].err)
    /\ RejectedByFileFilter(r)
         => /\ areq[r].handled
            /\ areq[r].out[1].status = 500

C15_Witness ==
  \E r \in ApiRequests :
    /\ RejectedByFileFilter(r)
    /\ areq[r].pc = "done" /\ areq[r].handled
    /\ areq[r].err.name = "Error"
    /\ areq[r].out[1].status = 500

====
